---- MODULE Spec2Model ----
(***************************************************************************)
(* Model of server/main.go: the /generate gateway.  One inbound request is *)
(* one run of generateHandler, which calls queryExternalAPI; the response  *)
(* writer, the upstream call and the upstream body are the environment.    *)
(*                                                                         *)
(* Text fragments are sequences of characters (so that concatenation is    *)
(* real); names and error texts are strings.  Temperatures are counted in  *)
(* tenths, so that 0.1 is the integer 1.                                   *)
(***************************************************************************)
EXTENDS Integers, Sequences, FiniteSets, TLC

\* ---------------------------------------------------------------- bounds
\* number of JSON values the upstream body may deliver
MaxChunks == 2
\* number of choices in one upstream JSON value
MaxChoices == 2

\* ------------------------------------------------------ program constants
DefaultModel == "meta-llama/Llama-3-8b-chat-hf"
DefaultMaxTokens == 512
DefaultTemperature == 1
StatusOK == 200
StatusBadRequest == 400
StatusMethodNotAllowed == 405
StatusInternalServerError == 500

\* the two requests of the concurrent specification; Solo is the one request
\* of the sequential specification
Reqs == {1, 2}
Solo == {1}

\* ------------------------------------------------------------- input sets
Methods == {"POST", "GET"}
ApiKeys == {"", "k"}
\* text fragments: the empty string and two distinct one-character strings
Str == {<<>>, <<"a">>, <<"b">>}

\* A JSON value of the inbound body: t is its JSON type ("absent" for a key
\* that is not in the object), s / n / b its payload.
JStr(x) == [t |-> "str", s |-> x, n |-> 0, b |-> FALSE]
JNum(x) == [t |-> "num", s |-> "", n |-> x, b |-> FALSE]
JBool(x) == [t |-> "bool", s |-> "", n |-> 0, b |-> x]
JNull == [t |-> "null", s |-> "", n |-> 0, b |-> FALSE]
JAbsent == [t |-> "absent", s |-> "", n |-> 0, b |-> FALSE]

\* An inbound body: syntax says whether the bytes are a JSON object at all.
JBody(syn, m, p, st, mt, te) ==
    [syntax |-> syn, model |-> m, prompt |-> p, stream |-> st,
     max_tokens |-> mt, temperature |-> te]

FullBodies ==
    { JBody(TRUE, JStr(m), JStr("p"), JBool(st), JNum(mt), JNum(te)) :
        m \in {"", "m"}, st \in BOOLEAN, mt \in {0, 7}, te \in {0, 5} }

SparseBodies ==
    { JBody(TRUE, JAbsent, JAbsent, JAbsent, JAbsent, JAbsent),
      JBody(TRUE, JNull, JStr("p"), JBool(TRUE), JNull, JAbsent) }

BadBodies ==
    { JBody(FALSE, JAbsent, JAbsent, JAbsent, JAbsent, JAbsent),
      JBody(TRUE, JStr("m"), JStr("p"), JBool(TRUE), JStr("x"), JNum(5)),
      JBody(TRUE, JNum(3), JStr("p"), JBool(FALSE), JNum(7), JNum(5)) }

InboundBodies == FullBodies \cup SparseBodies \cup BadBodies

\* One choice of an upstream JSON value: text is read by the non-streaming
\* decode target, content (delta.content) by the streaming one.
ChoiceVals == { [text |-> <<>>, content |-> <<>>],
                [text |-> <<"a">>, content |-> <<"b">>],
                [text |-> <<"b">>, content |-> <<"a">>] }

RECURSIVE SeqsUpTo(_, _)
SeqsUpTo(S, n) ==
    IF n = 0 THEN { <<>> }
    ELSE LET shorter == SeqsUpTo(S, n - 1)
         IN  shorter \cup { Append(q, x) : q \in { z \in shorter : Len(z) = n - 1 }, x \in S }

\* The JSON values the upstream body can deliver: a value that does not
\* decode (valid = FALSE), or an object with a list of choices (an object
\* without choices, such as an error document, has the empty list).
UpstreamVals ==
    { [valid |-> FALSE, choices |-> <<>>] } \cup
    { [valid |-> TRUE, choices |-> c] : c \in SeqsUpTo(ChoiceVals, MaxChoices) }

\* ------------------------------------------------------------- GenerationRequest
ZeroRequest ==
    [Model |-> "", Prompt |-> "", Stream |-> FALSE, MaxTokens |-> 0, Temperature |-> 0]

\* a key decodes into a field when it is absent, null or of the field's type
FieldOK(v, ty) == v.t \in {"absent", "null", ty}

\* variant: a decode that reports only bytes that are not JSON
DecodeErrorSyntaxOnly(b) == IF ~b.syntax THEN "invalid character" ELSE ""
\* json.NewDecoder(r.Body).Decode(&req): the error text, "" for none
DecodeError(b) ==
    IF ~b.syntax THEN "invalid character"
    ELSE IF /\ FieldOK(b.model, "str") /\ FieldOK(b.prompt, "str")
            /\ FieldOK(b.stream, "bool") /\ FieldOK(b.max_tokens, "num")
            /\ FieldOK(b.temperature, "num")
         THEN ""
         ELSE "json: cannot unmarshal"

\* the decoded GenerationRequest: absent and null keys leave the zero value
DecodeRequest(b) ==
    [Model |-> IF b.model.t = "str" THEN b.model.s ELSE ZeroRequest.Model,
     Prompt |-> IF b.prompt.t = "str" THEN b.prompt.s ELSE ZeroRequest.Prompt,
     Stream |-> IF b.stream.t = "bool" THEN b.stream.b ELSE ZeroRequest.Stream,
     MaxTokens |-> IF b.max_tokens.t = "num" THEN b.max_tokens.n ELSE ZeroRequest.MaxTokens,
     Temperature |-> IF b.temperature.t = "num" THEN b.temperature.n
                     ELSE ZeroRequest.Temperature]

\* variant: the defaults without the one of lines 50-52
ApplyDefaultsKeepZeroTemperature(q) ==
    [q EXCEPT !.Model = IF q.Model = "" THEN DefaultModel ELSE q.Model,
              !.MaxTokens = IF q.MaxTokens = 0 THEN DefaultMaxTokens ELSE q.MaxTokens]
\* lines 44-52: the defaults
ApplyDefaults(q) ==
    [q EXCEPT !.Model = IF q.Model = "" THEN DefaultModel ELSE q.Model,
              !.MaxTokens = IF q.MaxTokens = 0 THEN DefaultMaxTokens ELSE q.MaxTokens,
              !.Temperature = IF q.Temperature = 0 THEN DefaultTemperature ELSE q.Temperature]

\* lines 66-74: the JSON object sent upstream
RequestBody(q) ==
    [model |-> q.Model, prompt |-> q.Prompt, max_tokens |-> q.MaxTokens,
     temperature |-> q.Temperature, stream |-> q.Stream]

\* ------------------------------------------------------------- response writer
NoHeader == [k \in {} |-> ""]

\* w of generateHandler: the header map, the status line once committed
\* (0 before), the header as it was sent with the status, the writes issued
\* (ok = FALSE for a write that returned an error), and the flush count
NewWriter ==
    [header |-> NoHeader, status |-> 0, sent |-> NoHeader, body |-> <<>>,
     flushes |-> 0, pending |-> 0]

\* w.Header().Set(k, v)
HeaderSet(wr, k, v) ==
    [wr EXCEPT !.header = [x \in (DOMAIN wr.header) \cup {k} |->
                              IF x = k THEN v ELSE wr.header[x]]]

\* w.WriteHeader(code): the first call commits status and header, later
\* calls are ignored
WriteHeader(wr, code) ==
    IF wr.status # 0 THEN wr
    ELSE [wr EXCEPT !.status = code, !.sent = wr.header]

\* one write issued to the caller
NoDoc == [keys |-> {}, model |-> "", response |-> <<>>, created_at |-> ""]
Item(kind, data, text, doc) ==
    [kind |-> kind, data |-> data, text |-> text, doc |-> doc, ok |-> TRUE]
Fragment(s) == Item("frag", s, "", NoDoc)
ErrorText(t) == Item("error", <<>>, t, NoDoc)
Document(d) == Item("json", <<>>, "", d)

\* a write can succeed only while no earlier write to this caller failed
CanSucceed(wr) == \A i \in 1..Len(wr.body) : wr.body[i].ok

\* w.Write(item): commits status 200 if none was committed, then writes
Write(wr, item, ok) ==
    LET w1 == WriteHeader(wr, StatusOK)
    IN  [w1 EXCEPT !.body = Append(@, [item EXCEPT !.ok = ok]),
                   !.pending = IF ok THEN @ + 1 ELSE @]

\* flusher.Flush() on a writer that is a Flusher
Flush(wr) ==
    LET w1 == WriteHeader(wr, StatusOK)
    IN  [w1 EXCEPT !.flushes = @ + 1, !.pending = 0]

\* http.Error(w, text, code)
HttpError(wr, text, code, ok) ==
    LET w1 == HeaderSet(wr, "Content-Type", "text/plain; charset=utf-8")
        w2 == HeaderSet(w1, "X-Content-Type-Options", "nosniff")
        w3 == WriteHeader(w2, code)
    IN  Write(w3, ErrorText(text), ok)

\* the server ends the response when the handler returns: a response with
\* no status yet is sent as 200
FinishResponse(wr) == WriteHeader(wr, StatusOK)

\* json.NewEncoder(w).Encode(respJSON): created_at is omitted when empty
EncodeResponse(resp) ==
    [keys |-> {"model", "response"} \cup
              (IF resp.CreatedAt = "" THEN {} ELSE {"created_at"}),
     model |-> resp.Model, response |-> resp.Response,
     created_at |-> resp.CreatedAt]

\* ------------------------------------------------------------- upstream
\* the upstream side of one request: the request bodies sent, the state of
\* resp.Body, how often it was closed, the JSON values read from it, and
\* whether a read was made after Close
NoUpstream ==
    [sent |-> <<>>, body |-> "none", closes |-> 0, read |-> <<>>,
     lateRead |-> FALSE]

\* variant: line 91 left out
NeverClose(u) == u
\* defer resp.Body.Close(), run when queryExternalAPI exits
DeferredClose(u) ==
    IF u.body = "none" THEN u
    ELSE [u EXCEPT !.body = "closed", !.closes = @ + 1]

\* one value read by a decoder from resp.Body
ReadValue(u, v) ==
    [u EXCEPT !.read = Append(@, v),
              !.lateRead = @ \/ u.body # "open"]

\* variant: the fragment of the last choice instead of the first
ChunkContentLast(chunk) ==
    IF Len(chunk.choices) > 0 THEN chunk.choices[Len(chunk.choices)].content ELSE <<>>
\* lines 114-116: the fragment of a decoded chunk, empty when it has no choice
ChunkContent(chunk) ==
    IF Len(chunk.choices) > 0 THEN chunk.choices[1].content ELSE <<>>

\* variant: the text of the last choice instead of the first
BuildResponseLast(q, result) ==
    [Model |-> q.Model, Response |-> result.choices[Len(result.choices)].text, CreatedAt |-> ""]
\* lines 138-141
BuildResponse(q, result) ==
    [Model |-> q.Model, Response |-> result.choices[1].text, CreatedAt |-> ""]

\* ------------------------------------------------------------- state
VARIABLES
    apiKey,     \* TOGETHER_API_KEY of the process
    pc,         \* pc[r]: where request r is in generateHandler / queryExternalAPI
    inp,        \* inp[r]: the inbound request: method, body, and whether w is a Flusher
    req,        \* req[r]: the GenerationRequest of the handler
    w,          \* w[r]: the response writer
    up,         \* up[r]: the upstream call and its body
    err,        \* err[r]: the error queryExternalAPI returns, "" for nil
    cur,        \* cur[r]: content (line 115) / first choice text (line 140)
    panicked    \* panicked[r]: the handler goroutine panicked

vars == <<apiKey, pc, inp, req, w, up, err, cur, panicked>>

NoInput == [method |-> "", body |-> JBody(FALSE, JAbsent, JAbsent, JAbsent, JAbsent, JAbsent),
            flusher |-> TRUE]

Init ==
    /\ apiKey \in ApiKeys
    /\ pc = [r \in Reqs |-> "idle"]
    /\ inp = [r \in Reqs |-> NoInput]
    /\ req = [r \in Reqs |-> ZeroRequest]
    /\ w = [r \in Reqs |-> NewWriter]
    /\ up = [r \in Reqs |-> NoUpstream]
    /\ err = [r \in Reqs |-> ""]
    /\ cur = [r \in Reqs |-> <<>>]
    /\ panicked = [r \in Reqs |-> FALSE]

\* ------------------------------------------------------------- helpers
\* variant: the state of a request kept in one place shared by all requests
SetShared(f, r, v) == [q \in DOMAIN f |-> v]
\* the locals of generateHandler and queryExternalAPI belong to one request
Set(f, r, v) == [f EXCEPT ![r] = v]
Last(q) == q[Len(q)]

\* the outcomes a write to the caller can have
WriteOutcomes(wr) == IF CanSucceed(wr) THEN BOOLEAN ELSE {FALSE}

\* the response writer the server of main() hands to the handler is a Flusher
ServerWriterIsFlusher == TRUE

\* variant: the method check of line 33 left out
MethodAllowedAny(m) == TRUE
\* line 33
MethodAllowed(m) == m = "POST"

\* variant: the credential check of line 62 left out
KeyNeverMissing(k) == FALSE
\* line 62
KeyMissing(k) == k = ""

\* variant: line 31 left out
SetCORSNever(wr) == wr
\* line 31
SetCORS(wr) == HeaderSet(wr, "Access-Control-Allow-Origin", "*")

\* variant: the call is issued again when it fails
OnCallFailureRetry == "query"
\* lines 88-90: where queryExternalAPI goes when the call fails (return)
OnCallFailure == "ret"

\* variant: only the content type of lines 94-96 is set
SetStreamHeadersContentTypeOnly(wr) == HeaderSet(wr, "Content-Type", "text/event-stream")
\* lines 94-96
SetStreamHeaders(wr) ==
    HeaderSet(HeaderSet(HeaderSet(wr,
        "Content-Type", "text/event-stream"),
        "Cache-Control", "no-cache"),
        "Connection", "keep-alive")

\* variant: line 118 left out
AfterWriteSkipFlush(ok) == "loop"
\* variant: the loop is left when the write of line 117 fails
AfterWriteStopOnError(ok) == IF ok THEN "flush" ELSE "ret"
\* lines 117-118: the result of Fprintf is not looked at, the flush follows
AfterWrite(ok) == "flush"

\* line 93: where queryExternalAPI goes once the call returned a response
AfterResponse(q) == IF q.Stream THEN "stream" ELSE "decode"

\* variant: continue instead of break at line 111
OnDecodeFailureContinue == "loop"
\* lines 110-112: where the loop goes when a chunk fails to decode (break)
OnDecodeFailure == "ret"

\* variant: the loop is entered again when the upstream has no further value
AfterLoopStays == "loop"
\* variant: line 122 left out, the streaming branch runs into line 125
AfterLoopFallsThrough == "decode"
\* line 122: where the streaming branch goes when its loop ends (return nil)
AfterLoop == "ret"

\* lines 134-136: the error for a decoded document, "" for none
ResultError(result) ==
    IF Len(result.choices) = 0 THEN "no choices returned" ELSE ""

\* variant: the error text written without its status
ReportErrorNoStatus(wr, e, ok) == Write(wr, ErrorText(e), ok)
\* line 56
ReportError(wr, e, ok) == HttpError(wr, e, StatusInternalServerError, ok)

\* a read that finds the upstream body exhausted
ReadEnd(u) == [u EXCEPT !.lateRead = @ \/ u.body # "open"]

\* ------------------------------------------------------------- actions
\* a request arrives at /generate with a method of ms, a body of bs and a
\* response writer that is a Flusher or not as fs says
ArriveFrom(r, ms, bs, fs) ==
    /\ pc[r] = "idle"
    /\ \E m \in ms, b \in bs, f \in fs :
          inp' = Set(inp, r, [method |-> m, body |-> b, flusher |-> f])
    /\ pc' = Set(pc, r, "handler")
    /\ UNCHANGED <<apiKey, req, w, up, err, cur, panicked>>

\* a request arrives at the server of main()
Arrive(r) == ArriveFrom(r, Methods, InboundBodies, {ServerWriterIsFlusher})

\* generateHandler, lines 30-53
HandlerEntry(r) ==
    /\ pc[r] = "handler"
    /\ LET w0 == SetCORS(w[r])
           de == DecodeError(inp[r].body)
       IN  IF ~MethodAllowed(inp[r].method)
           THEN /\ \E ok \in WriteOutcomes(w0) :
                      w' = Set(w, r, FinishResponse(
                              HttpError(w0, "Method not allowed", StatusMethodNotAllowed, ok)))
                /\ pc' = Set(pc, r, "done")
                /\ req' = req
           ELSE IF de # ""
           THEN /\ \E ok \in WriteOutcomes(w0) :
                      w' = Set(w, r, FinishResponse(HttpError(w0, de, StatusBadRequest, ok)))
                /\ pc' = Set(pc, r, "done")
                /\ req' = req
           ELSE /\ w' = Set(w, r, w0)
                /\ req' = Set(req, r, ApplyDefaults(DecodeRequest(inp[r].body)))
                /\ pc' = Set(pc, r, "query")
    /\ UNCHANGED <<apiKey, inp, up, err, cur, panicked>>

\* queryExternalAPI, lines 60-87: the credential check, then the call is issued
QueryEntry(r) ==
    /\ pc[r] = "query"
    /\ IF KeyMissing(apiKey)
       THEN /\ err' = Set(err, r, "API key not set in TOGETHER_API_KEY environment variable")
            /\ pc' = Set(pc, r, "ret")
            /\ up' = up
       ELSE /\ up' = Set(up, r, [up[r] EXCEPT !.sent = Append(@, RequestBody(req[r]))])
            /\ pc' = Set(pc, r, "call")
            /\ err' = err
    /\ UNCHANGED <<apiKey, inp, req, w, cur, panicked>>

\* lines 87-90: http.DefaultClient.Do fails
CallFails(r) ==
    /\ pc[r] = "call"
    /\ err' = Set(err, r, "request failed")
    /\ pc' = Set(pc, r, OnCallFailure)
    /\ UNCHANGED <<apiKey, inp, req, w, up, cur, panicked>>

\* lines 87-93: http.DefaultClient.Do returns a response
CallReturns(r) ==
    /\ pc[r] = "call"
    /\ up' = Set(up, r, [up[r] EXCEPT !.body = "open"])
    /\ pc' = Set(pc, r, AfterResponse(req[r]))
    /\ UNCHANGED <<apiKey, inp, req, w, err, cur, panicked>>

\* lines 94-99
StreamHeaders(r) ==
    /\ pc[r] = "stream"
    /\ w' = Set(w, r, SetStreamHeaders(w[r]))
    /\ pc' = Set(pc, r, "loop")
    /\ UNCHANGED <<apiKey, inp, req, up, err, cur, panicked>>

\* line 101, decoder.More() finds no further value; line 122
StreamEnd(r) ==
    /\ pc[r] = "loop"
    /\ up' = Set(up, r, ReadEnd(up[r]))
    /\ pc' = Set(pc, r, AfterLoop)
    /\ UNCHANGED <<apiKey, inp, req, w, err, cur, panicked>>

\* lines 101-116: one more value, one of vals, is decoded
StreamDecodeFrom(r, vals) ==
    /\ pc[r] = "loop"
    /\ Len(up[r].read) < MaxChunks
    /\ \E v \in vals :
          /\ up' = Set(up, r, ReadValue(up[r], v))
          /\ IF ~v.valid
             THEN /\ pc' = Set(pc, r, OnDecodeFailure)
                  /\ cur' = cur
             ELSE IF ChunkContent(v) # <<>>
             THEN /\ pc' = Set(pc, r, "write")
                  /\ cur' = Set(cur, r, ChunkContent(v))
             ELSE /\ pc' = Set(pc, r, "loop")
                  /\ cur' = cur
    /\ UNCHANGED <<apiKey, inp, req, w, err, panicked>>

StreamDecode(r) == StreamDecodeFrom(r, UpstreamVals)

\* line 117
StreamWrite(r) ==
    /\ pc[r] = "write"
    /\ \E ok \in WriteOutcomes(w[r]) :
          /\ w' = Set(w, r, Write(w[r], Fragment(cur[r]), ok))
          /\ pc' = Set(pc, r, AfterWrite(ok))
    /\ UNCHANGED <<apiKey, inp, req, up, err, cur, panicked>>

\* line 118: a nil flusher panics; the deferred Close runs and the server
\* recovers the goroutine
StreamFlush(r) ==
    /\ pc[r] = "flush"
    /\ IF inp[r].flusher
       THEN /\ w' = Set(w, r, Flush(w[r]))
            /\ pc' = Set(pc, r, "loop")
            /\ UNCHANGED <<up, panicked>>
       ELSE /\ panicked' = Set(panicked, r, TRUE)
            /\ up' = Set(up, r, DeferredClose(up[r]))
            /\ pc' = Set(pc, r, "done")
            /\ w' = w
    /\ UNCHANGED <<apiKey, inp, req, err, cur>>

\* lines 125-136: the non-streaming body, empty or one of vals, is decoded
\* as one document
NonStreamDecodeFrom(r, vals) ==
    /\ pc[r] = "decode"
    /\ \/ /\ up' = Set(up, r, ReadEnd(up[r]))
          /\ err' = Set(err, r, "failed to decode response")
          /\ pc' = Set(pc, r, "ret")
       \/ \E v \in vals :
            /\ up' = Set(up, r, ReadValue(up[r], v))
            /\ IF ~v.valid
               THEN /\ err' = Set(err, r, "failed to decode response")
                    /\ pc' = Set(pc, r, "ret")
               ELSE IF ResultError(v) # ""
               THEN /\ err' = Set(err, r, ResultError(v))
                    /\ pc' = Set(pc, r, "ret")
               ELSE /\ err' = err
                    /\ pc' = Set(pc, r, "encode")
    /\ UNCHANGED <<apiKey, inp, req, w, cur, panicked>>

NonStreamDecode(r) == NonStreamDecodeFrom(r, UpstreamVals)

\* lines 138-142
EncodeReply(r) ==
    /\ pc[r] = "encode"
    /\ \E ok \in WriteOutcomes(w[r]) :
          /\ w' = Set(w, r, Write(w[r],
                     Document(EncodeResponse(BuildResponse(req[r], Last(up[r].read)))), ok))
          /\ err' = Set(err, r, IF ok THEN "" ELSE "write failed")
    /\ pc' = Set(pc, r, "ret")
    /\ UNCHANGED <<apiKey, inp, req, up, cur, panicked>>

\* queryExternalAPI exits: the deferred resp.Body.Close() of line 91 runs
QueryReturn(r) ==
    /\ pc[r] = "ret"
    /\ up' = Set(up, r, DeferredClose(up[r]))
    /\ pc' = Set(pc, r, "after")
    /\ UNCHANGED <<apiKey, inp, req, w, err, cur, panicked>>

\* lines 55-58: the error, if any, is reported and the handler returns
HandlerReturn(r) ==
    /\ pc[r] = "after"
    /\ IF err[r] # ""
       THEN \E ok \in WriteOutcomes(w[r]) :
               w' = Set(w, r, FinishResponse(ReportError(w[r], err[r], ok)))
       ELSE w' = Set(w, r, FinishResponse(w[r]))
    /\ pc' = Set(pc, r, "done")
    /\ UNCHANGED <<apiKey, inp, req, up, err, cur, panicked>>

Step(r) ==
    \/ Arrive(r)
    \/ HandlerEntry(r)
    \/ QueryEntry(r)
    \/ CallFails(r)
    \/ CallReturns(r)
    \/ StreamHeaders(r)
    \/ StreamEnd(r)
    \/ StreamDecode(r)
    \/ StreamWrite(r)
    \/ StreamFlush(r)
    \/ NonStreamDecode(r)
    \/ EncodeReply(r)
    \/ QueryReturn(r)
    \/ HandlerReturn(r)

\* one request at a time
Next == \E r \in Solo : Step(r)

Spec == Init /\ [][Next]_vars

\* the scheduler runs the handler's goroutine and a finite upstream body
\* answers every read, so a request that can take a step takes one
FairSpec == Spec /\ WF_vars(Next)

\* ------------------------------------------------------------- any response writer
\* generateHandler called with any http.ResponseWriter, a Flusher or not
ArriveAny(r) == ArriveFrom(r, Methods, InboundBodies, BOOLEAN)

StepAny(r) ==
    \/ ArriveAny(r)
    \/ HandlerEntry(r)
    \/ QueryEntry(r)
    \/ CallFails(r)
    \/ CallReturns(r)
    \/ StreamHeaders(r)
    \/ StreamEnd(r)
    \/ StreamDecode(r)
    \/ StreamWrite(r)
    \/ StreamFlush(r)
    \/ NonStreamDecode(r)
    \/ EncodeReply(r)
    \/ QueryReturn(r)
    \/ HandlerReturn(r)

NextAny == \E r \in Solo : StepAny(r)

SpecAnyWriter == Init /\ [][NextAny]_vars

\* ------------------------------------------------------------- two concurrent requests
\* the inputs of the concurrent specification: a streaming body, a
\* non-streaming one and one that does not decode; upstream values that do
\* not decode, have no choice, or have one choice
ConcBodies ==
    { JBody(TRUE, JStr("m"), JStr("p"), JBool(TRUE), JNum(7), JNum(5)),
      JBody(TRUE, JStr(""), JStr("p"), JBool(FALSE), JNum(0), JNum(0)),
      JBody(FALSE, JAbsent, JAbsent, JAbsent, JAbsent, JAbsent) }

ConcVals ==
    { v \in UpstreamVals :
        Len(v.choices) <= 1 /\ \A i \in 1..Len(v.choices) : v.choices[i].content # <<>> }

ConcArrive(r) == ArriveFrom(r, Methods, ConcBodies, {ServerWriterIsFlusher})
ConcStreamDecode(r) == StreamDecodeFrom(r, ConcVals)
ConcNonStreamDecode(r) == NonStreamDecodeFrom(r, ConcVals)

StepConc(r) ==
    \/ ConcArrive(r)
    \/ HandlerEntry(r)
    \/ QueryEntry(r)
    \/ CallFails(r)
    \/ CallReturns(r)
    \/ StreamHeaders(r)
    \/ StreamEnd(r)
    \/ ConcStreamDecode(r)
    \/ StreamWrite(r)
    \/ StreamFlush(r)
    \/ ConcNonStreamDecode(r)
    \/ EncodeReply(r)
    \/ QueryReturn(r)
    \/ HandlerReturn(r)

\* each connection is served by its own goroutine: any interleaving of the
\* steps of the two requests
NextConc == \E r \in Reqs : StepConc(r)

SpecConc == Init /\ [][NextConc]_vars

\* ------------------------------------------------------------- vocabulary of the properties
Started(r) == pc[r] \notin {"idle", "handler"}
Done(r) == pc[r] = "done"
IsPost(r) == inp[r].method = "POST"
Decodable(r) == inp[r].body \notin BadBodies
Wrote(r, kind) == \E i \in 1..Len(w[r].body) : w[r].body[i].kind = kind
Count(r, kind) == Cardinality({ i \in 1..Len(w[r].body) : w[r].body[i].kind = kind })
UpstreamCalled(r) == up[r].sent # <<>> \/ up[r].body # "none"
HasHeader(wr, k, v) == k \in DOMAIN wr.header /\ wr.header[k] = v
StreamHeaderSet(wr) ==
    \/ HasHeader(wr, "Content-Type", "text/event-stream")
    \/ "Cache-Control" \in DOMAIN wr.header
    \/ "Connection" \in DOMAIN wr.header

\* the bytes of the fragments written to the caller, in order
RECURSIVE StreamBytes(_)
StreamBytes(b) ==
    IF b = <<>> THEN <<>>
    ELSE (IF Head(b).kind = "frag" THEN Head(b).data ELSE <<>>) \o StreamBytes(Tail(b))

\* what a relay of the upstream values vals is to write: the first-choice
\* delta content of every value up to the first one that does not decode
RECURSIVE Relayed(_)
Relayed(vals) ==
    IF vals = <<>> THEN <<>>
    ELSE IF ~Head(vals).valid THEN <<>>
    ELSE (IF Head(vals).choices = <<>> THEN <<>> ELSE Head(vals).choices[1].content)
            \o Relayed(Tail(vals))

AllValid(vals) == \A i \in 1..Len(vals) : vals[i].valid

\* ------------------------------------------------------------- C1
\* C1: a request whose method is not POST is answered 405 by the handler's
\* first step, whatever its body, and the upstream is never called for it.
C1_NonPostIs405 ==
    \A r \in Reqs :
        (Started(r) /\ ~IsPost(r)) =>
            /\ Done(r)
            /\ w[r].status = StatusMethodNotAllowed
            /\ w[r].sent["Content-Type"] = "text/plain; charset=utf-8"
            /\ Len(w[r].body) = 1
            /\ w[r].body[1].kind = "error"
            /\ w[r].body[1].text = "Method not allowed"
            /\ ~UpstreamCalled(r)

C1_Witness ==
    \E r \in Reqs :
        /\ Done(r) /\ inp[r].method = "GET"
        /\ inp[r].body \in FullBodies /\ inp[r].body.stream.b
        /\ w[r].status = StatusMethodNotAllowed
        /\ apiKey # ""

\* ------------------------------------------------------------- C2
\* C2: a POST whose body does not decode as a GenerationRequest (not JSON,
\* or a key of the wrong type) is answered 400 with the decode error text,
\* and the upstream is never called for it.
C2_BadBodyIs400 ==
    \A r \in Reqs :
        (Started(r) /\ IsPost(r) /\ inp[r].body \in BadBodies) =>
            /\ Done(r)
            /\ w[r].status = StatusBadRequest
            /\ Len(w[r].body) = 1
            /\ w[r].body[1].kind = "error"
            /\ w[r].body[1].text =
                  (IF inp[r].body.syntax THEN "json: cannot unmarshal" ELSE "invalid character")
            /\ ~UpstreamCalled(r)

C2_Witness ==
    \E r \in Reqs :
        /\ Done(r) /\ IsPost(r)
        /\ inp[r].body.syntax /\ inp[r].body.max_tokens.t = "str"
        /\ w[r].status = StatusBadRequest
        /\ apiKey # ""

\* ------------------------------------------------------------- C3
\* C3: without the credential a decodable POST, streaming or not, never
\* reaches the upstream call, sets no event-stream header, writes no
\* fragment and no GenerationResponse, and ends with status 500.
C3_NoKeyIs500 ==
    \A r \in Reqs :
        (apiKey = "" /\ Started(r) /\ IsPost(r) /\ Decodable(r)) =>
            /\ ~UpstreamCalled(r)
            /\ pc[r] \in {"query", "ret", "after", "done"}
            /\ ~StreamHeaderSet(w[r])
            /\ ~Wrote(r, "frag") /\ ~Wrote(r, "json")
            /\ Done(r) =>
                 /\ w[r].status = StatusInternalServerError
                 /\ Len(w[r].body) = 1
                 /\ w[r].body[1].kind = "error"
                 /\ w[r].body[1].text = "API key not set in TOGETHER_API_KEY environment variable"

C3_Witness ==
    \E r \in Reqs :
        /\ apiKey = "" /\ Done(r) /\ IsPost(r) /\ Decodable(r)
        /\ inp[r].body.stream.t = "bool" /\ inp[r].body.stream.b
        /\ w[r].status = StatusInternalServerError

\* ------------------------------------------------------------- C4
\* the request ended with no error: nil from queryExternalAPI, status 200
CompletedOK(r) ==
    /\ Done(r) /\ IsPost(r) /\ Decodable(r)
    /\ err[r] = "" /\ ~panicked[r] /\ w[r].status = StatusOK

\* C4 as stated: a request that completes without an error has written
\* exactly one of a GenerationResponse and a raw streamed byte sequence,
\* never both and never neither.
C4_ExactlyOneOutput ==
    \A r \in Reqs :
        CompletedOK(r) =>
            /\ Wrote(r, "json") # Wrote(r, "frag")
            /\ req[r].Stream => ~Wrote(r, "json")

\* C4, amended: never both outputs; a streaming request never writes a
\* GenerationResponse; a non-streaming request that completes without an
\* error has written exactly one GenerationResponse; a streaming request
\* that completes has written stream bytes exactly when the upstream
\* delivered a non-empty first-choice fragment before its end or its first
\* undecodable value, and has otherwise written neither output.
C4_AtMostOneOutput ==
    \A r \in Reqs :
        /\ ~(Wrote(r, "json") /\ Wrote(r, "frag"))
        /\ (Started(r) /\ req[r].Stream) => ~Wrote(r, "json")
        /\ (Started(r) /\ ~req[r].Stream) => ~Wrote(r, "frag")
        /\ CompletedOK(r) =>
             IF req[r].Stream
             THEN Wrote(r, "frag") <=> (Relayed(up[r].read) # <<>>)
             ELSE Count(r, "json") = 1 /\ Len(w[r].body) = 1

C4_Witness ==
    \E r \in Reqs :
        /\ CompletedOK(r) /\ req[r].Stream
        /\ Len(up[r].read) = MaxChunks /\ AllValid(up[r].read)
        /\ w[r].body = <<>>

\* ------------------------------------------------------------- C5
\* the relay has received a response and is between two writes
AtRest(r) == pc[r] \in {"loop", "ret", "after", "done"} /\ up[r].body # "none"

OnlyFragments(r) ==
    \A i \in 1..Len(w[r].body) : w[r].body[i].kind = "frag" /\ w[r].body[i].data # <<>>

C5_Body(r) ==
    (Started(r) /\ req[r].Stream /\ AllValid(up[r].read) /\ up[r].body # "none") =>
        /\ OnlyFragments(r)
        /\ AtRest(r) => StreamBytes(w[r].body) = Relayed(up[r].read)
        /\ pc[r] = "write" => StreamBytes(w[r].body) \o cur[r] = Relayed(up[r].read)
        /\ pc[r] = "flush" => StreamBytes(w[r].body) = Relayed(up[r].read)
        /\ Done(r) => w[r].status = StatusOK /\ ~panicked[r] /\ err[r] = ""

\* a chunk that decodes never ends the loop: with every value read so far
\* decodable, the loop is left only when the upstream has no further value
C5_Step(r) ==
    (pc[r] = "loop" /\ pc'[r] # "loop" /\ req[r].Stream /\ AllValid(up'[r].read)) =>
        \/ pc'[r] = "write" /\ Len(up'[r].read) = Len(up[r].read) + 1
        \/ pc'[r] = "ret" /\ up'[r].read = up[r].read

\* C5: in streaming mode, while every upstream value decodes, the bytes
\* written to the caller are exactly the concatenation, in upstream order,
\* of the first-choice delta content of the chunks that have a choice and a
\* non-empty fragment; other chunks write nothing and do not end the relay;
\* nothing but fragments is written.
C5_RelayIsConcatenation ==
    /\ [](\A r \in Reqs : C5_Body(r))
    /\ [][\A r \in Reqs : C5_Step(r)]_vars

C5_Witness ==
    \E r \in Reqs :
        /\ Done(r) /\ req[r].Stream /\ Len(up[r].read) = 2 /\ AllValid(up[r].read)
        /\ Len(up[r].read[1].choices) = 2
        /\ StreamBytes(w[r].body) = <<"a", "b">>
        /\ Len(w[r].body) = 2

\* ------------------------------------------------------------- C6
\* C6: in streaming mode, once an upstream value failed to decode, it is
\* the last value read, the bytes written are those of the fragments before
\* it and nothing else, queryExternalAPI returns nil, the status is 200 and
\* not 500, and the handler has not panicked.
C6_DecodeFailureStops ==
    \A r \in Reqs :
        (Started(r) /\ req[r].Stream /\ ~AllValid(up[r].read)) =>
            /\ ~Last(up[r].read).valid
            /\ AllValid(SubSeq(up[r].read, 1, Len(up[r].read) - 1))
            /\ pc[r] \in {"ret", "after", "done"}
            /\ OnlyFragments(r)
            /\ StreamBytes(w[r].body) = Relayed(SubSeq(up[r].read, 1, Len(up[r].read) - 1))
            /\ err[r] = "" /\ ~panicked[r]
            /\ w[r].status \in {0, StatusOK}
            /\ Done(r) => w[r].status = StatusOK

C6_Witness ==
    \E r \in Reqs :
        /\ Done(r) /\ req[r].Stream /\ Len(up[r].read) = 2
        /\ up[r].read[1].valid /\ ~up[r].read[2].valid
        /\ StreamBytes(w[r].body) = <<"a">>
        /\ w[r].status = StatusOK

\* ------------------------------------------------------------- C7
\* the request fields the claims expect, read off the inbound body
InModel(b) == IF b.model.t = "str" THEN b.model.s ELSE ""
InPrompt(b) == IF b.prompt.t = "str" THEN b.prompt.s ELSE ""
InStream(b) == b.stream.t = "bool" /\ b.stream.b
InMaxTokens(b) == IF b.max_tokens.t = "num" THEN b.max_tokens.n ELSE 0
InTemperature(b) == IF b.temperature.t = "num" THEN b.temperature.n ELSE 0
EffectiveModel(b) == IF InModel(b) = "" THEN DefaultModel ELSE InModel(b)

\* the non-streaming decode produced a document with at least one choice
DecodedChoices(r) ==
    /\ Started(r) /\ ~req[r].Stream
    /\ Len(up[r].read) = 1 /\ up[r].read[1].valid
    /\ up[r].read[1].choices # <<>>

\* C7: in non-streaming mode, once the upstream document with at least one
\* choice has been encoded, exactly one GenerationResponse has been written,
\* it is the first write, its model is the effective request model, its
\* response is the text of the first choice and it has no created_at; when
\* that write succeeds it is the whole reply and the status is 200.
C7_ReplyIsFirstChoice ==
    \A r \in Reqs :
        (DecodedChoices(r) /\ pc[r] \in {"ret", "after", "done"}) =>
            /\ Count(r, "json") = 1
            /\ w[r].body[1].kind = "json"
            /\ w[r].body[1].doc.model = EffectiveModel(inp[r].body)
            /\ w[r].body[1].doc.response = up[r].read[1].choices[1].text
            /\ w[r].body[1].doc.keys = {"model", "response"}
            /\ w[r].status = StatusOK
            /\ w[r].body[1].ok => (err[r] = "" /\ Len(w[r].body) = 1)

C7_Witness ==
    \E r \in Reqs :
        /\ Done(r) /\ DecodedChoices(r)
        /\ Len(up[r].read[1].choices) = 2
        /\ up[r].read[1].choices[1].text = <<"a">>
        /\ up[r].read[1].choices[2].text = <<"b">>
        /\ inp[r].body.model.s = "m"
        /\ w[r].body[1].ok

\* ------------------------------------------------------------- C8
\* C8: in non-streaming mode, when the upstream document decodes with an
\* empty list of choices, queryExternalAPI returns "no choices returned",
\* no GenerationResponse is written and the response is 500 with that text.
C8_NoChoicesIs500 ==
    \A r \in Reqs :
        (/\ Started(r) /\ ~req[r].Stream
         /\ Len(up[r].read) = 1 /\ up[r].read[1].valid
         /\ up[r].read[1].choices = <<>>) =>
            /\ pc[r] \in {"ret", "after", "done"}
            /\ err[r] = "no choices returned"
            /\ ~Wrote(r, "json")
            /\ Done(r) =>
                 /\ w[r].status = StatusInternalServerError
                 /\ w[r].sent["Content-Type"] = "text/plain; charset=utf-8"
                 /\ Len(w[r].body) = 1
                 /\ w[r].body[1].kind = "error"
                 /\ w[r].body[1].text = "no choices returned"

C8_Witness ==
    \E r \in Reqs :
        /\ Done(r) /\ ~req[r].Stream
        /\ Len(up[r].read) = 1 /\ up[r].read[1].valid
        /\ up[r].read[1].choices = <<>>
        /\ w[r].status = StatusInternalServerError

\* ------------------------------------------------------------- C9
ExpectedUpstreamBody(b) ==
    [model |-> EffectiveModel(b),
     prompt |-> InPrompt(b),
     max_tokens |-> IF InMaxTokens(b) = 0 THEN 512 ELSE InMaxTokens(b),
     temperature |-> IF InTemperature(b) = 0 THEN 1 ELSE InTemperature(b),
     stream |-> InStream(b)]

\* C9: the body sent upstream for a decodable request carries the inbound
\* model, or the default one when it is empty; the inbound max_tokens, or
\* 512 when it is 0; the inbound temperature, or 0.1 when it is 0, an
\* explicit 0 included; and the inbound prompt and stream unchanged.  With
\* the credential present every decodable POST sends exactly this body.
C9_UpstreamBodyDefaults ==
    \A r \in Reqs :
        /\ up[r].sent # <<>> => up[r].sent = << ExpectedUpstreamBody(inp[r].body) >>
        /\ (/\ Started(r) /\ IsPost(r) /\ Decodable(r)
            /\ apiKey # "" /\ pc[r] # "query") => up[r].sent # <<>>

C9_Witness ==
    \E r \in Reqs :
        /\ Len(up[r].sent) = 1
        /\ inp[r].body.temperature = JNum(0)
        /\ inp[r].body.max_tokens = JNum(7)
        /\ inp[r].body.model = JStr("")
        /\ up[r].sent[1].temperature = DefaultTemperature
        /\ up[r].sent[1].max_tokens = 7
        /\ up[r].sent[1].model = DefaultModel

\* ------------------------------------------------------------- C10
\* C10: resp.Body is never read after it is closed, it is closed at most
\* once, it stays open while queryExternalAPI runs, and once
\* queryExternalAPI has exited a body that was returned is closed exactly
\* once, whichever way the function was left.
C10_BodyClosedOnce ==
    \A r \in Reqs :
        /\ ~up[r].lateRead
        /\ up[r].closes <= 1
        /\ up[r].body = "closed" <=> up[r].closes = 1
        /\ up[r].body = "open" =>
              pc[r] \in {"stream", "loop", "write", "flush", "decode", "encode", "ret"}
        /\ up[r].body = "closed" => pc[r] \in {"after", "done"}
        /\ (pc[r] \in {"after", "done"} /\ up[r].sent # <<>> /\ err[r] # "request failed") =>
              up[r].closes = 1
        /\ up[r].read # <<>> => up[r].body # "none"

C10_Witness ==
    \E r \in Reqs :
        /\ pc[r] = "after" /\ err[r] = "write failed"
        /\ up[r].body = "closed" /\ up[r].closes = 1

\* ------------------------------------------------------------- C11
SentHeader(r, k, v) == k \in DOMAIN w[r].sent /\ w[r].sent[k] = v

\* C11: from the handler's first step on the header map holds
\* Access-Control-Allow-Origin: *, and the header that was sent with the
\* status (405, 400, 500 or 200, streaming or not) carries it: it is set
\* before the status and before any body byte.
C11_CorsOnEveryResponse ==
    \A r \in Reqs :
        /\ Started(r) => HasHeader(w[r], "Access-Control-Allow-Origin", "*")
        /\ (w[r].status # 0 \/ w[r].body # <<>>) =>
              SentHeader(r, "Access-Control-Allow-Origin", "*")
        /\ Done(r) =>
              /\ w[r].status \in {StatusMethodNotAllowed, StatusBadRequest,
                                  StatusInternalServerError, StatusOK}
              /\ SentHeader(r, "Access-Control-Allow-Origin", "*")

C11_Witness ==
    \E r \in Reqs :
        /\ Done(r) /\ req[r].Stream /\ Wrote(r, "frag")
        /\ w[r].status = StatusOK
        /\ SentHeader(r, "Access-Control-Allow-Origin", "*")
        /\ SentHeader(r, "Content-Type", "text/event-stream")

\* ------------------------------------------------------------- C12
\* C12: queryExternalAPI returns an error only while no status, no
\* streaming header and no body byte has been written, so that every error
\* it returns reaches the caller as status 500 with the error text as body.
C12_ErrorsSurfaceAs500 ==
    \A r \in Reqs :
        /\ (pc[r] \in {"ret", "after"} /\ err[r] # "") =>
              /\ w[r].status = 0
              /\ w[r].body = <<>>
              /\ ~StreamHeaderSet(w[r])
        /\ (Done(r) /\ err[r] # "") =>
              /\ w[r].status = StatusInternalServerError
              /\ SentHeader(r, "Content-Type", "text/plain; charset=utf-8")
              /\ Len(w[r].body) = 1
              /\ w[r].body[1].kind = "error"
              /\ w[r].body[1].text = err[r]

\* ------------------------------------------------------------- C13
\* the call failed at the network level
NetworkFailed(r) == up[r].sent # <<>> /\ up[r].body = "none"

\* the upstream reply was one document without choices, as an error document is
ErrorDocument(r) ==
    /\ Len(up[r].read) = 1
    /\ up[r].read[1].valid
    /\ up[r].read[1].choices = <<>>

\* C13: a request whose upstream call failed, or was answered by an error
\* document instead of choices, ends with status 500 and a plaintext error,
\* in streaming mode as in non-streaming mode.
C13_UpstreamFailureIs500 ==
    \A r \in Reqs :
        (Done(r) /\ (NetworkFailed(r) \/ ErrorDocument(r))) =>
            /\ w[r].status = StatusInternalServerError
            /\ SentHeader(r, "Content-Type", "text/plain; charset=utf-8")
            /\ Wrote(r, "error")

\* ------------------------------------------------------------- C14
AllStreamHeaders(h) ==
    /\ {"Content-Type", "Cache-Control", "Connection"} \subseteq DOMAIN h
    /\ h["Content-Type"] = "text/event-stream"
    /\ h["Cache-Control"] = "no-cache"
    /\ h["Connection"] = "keep-alive"

NoStreamHeader(h) ==
    /\ "Cache-Control" \notin DOMAIN h
    /\ "Connection" \notin DOMAIN h
    /\ "Content-Type" \in DOMAIN h => h["Content-Type"] # "text/event-stream"

\* C14: the three event-stream headers are set together, only in streaming
\* mode and only once the upstream call has returned a response; the header
\* sent ahead of the first fragment carries all three; a response with
\* status 500 carries none of them.
C14_StreamHeadersBeforeBody ==
    \A r \in Reqs :
        /\ ~NoStreamHeader(w[r].header) =>
              /\ AllStreamHeaders(w[r].header)
              /\ req[r].Stream
              /\ up[r].body # "none"
        /\ (Started(r) /\ req[r].Stream /\ up[r].body # "none" /\ pc[r] # "stream") =>
              AllStreamHeaders(w[r].header)
        /\ Wrote(r, "frag") => AllStreamHeaders(w[r].sent)
        /\ w[r].status = StatusInternalServerError =>
              NoStreamHeader(w[r].header) /\ NoStreamHeader(w[r].sent)

C14_Witness ==
    \E r \in Reqs :
        /\ pc[r] = "flush" /\ Len(w[r].body) = 1
        /\ w[r].body[1].kind = "frag"
        /\ AllStreamHeaders(w[r].sent)

\* ------------------------------------------------------------- C15
C15_Counts(r) ==
    (Started(r) /\ req[r].Stream /\ up[r].body # "none") =>
        /\ w[r].pending <= 1
        /\ AtRest(r) => (w[r].flushes = Count(r, "frag") /\ w[r].pending = 0)
        /\ pc[r] = "write" => (w[r].flushes = Count(r, "frag") /\ w[r].pending = 0)
        /\ pc[r] = "flush" => w[r].flushes + 1 = Count(r, "frag")

\* a value is read from the upstream body only with nothing unflushed
C15_Read(r) ==
    (req[r].Stream /\ up'[r].read # up[r].read) =>
        (w[r].pending = 0 /\ w[r].flushes = Count(r, "frag"))

\* C15: in streaming mode each fragment write is followed by its flush
\* before the next upstream value is read: at most one fragment is ever
\* unflushed, none is when a value is read, and between two rounds of the
\* loop the number of flushes equals the number of fragment writes.
C15_FlushAfterEachWrite ==
    /\ [](\A r \in Reqs : C15_Counts(r))
    /\ [][\A r \in Reqs : C15_Read(r)]_vars

C15_Witness ==
    \E r \in Reqs :
        /\ Done(r) /\ req[r].Stream
        /\ Count(r, "frag") = 2 /\ w[r].flushes = 2
        /\ CanSucceed(w[r])

\* ------------------------------------------------------------- C16
\* the loop is left exactly when the upstream has no further value or a
\* value fails to decode
C16_Exit(r) ==
    (pc[r] = "loop" /\ req[r].Stream) =>
        /\ pc'[r] \in {"loop", "write", "ret"}
        /\ pc'[r] = "ret" =>
              \/ up'[r].read = up[r].read
              \/ /\ Len(up'[r].read) = Len(up[r].read) + 1
                 /\ ~Last(up'[r].read).valid
        /\ (up'[r].read # up[r].read /\ ~Last(up'[r].read).valid) => pc'[r] = "ret"

\* nothing but the fragments is in the body of a relay that has ended
C16_NoMarker(r) ==
    (Done(r) /\ req[r].Stream /\ up[r].body # "none") =>
        /\ StreamBytes(w[r].body) = Relayed(up[r].read)
        /\ Count(r, "frag") = Len(w[r].body)

\* C16: with a finite upstream body the relay loop is eventually left and
\* the handler returns; the loop is left exactly on exhaustion or on the
\* first value that fails to decode, and no end marker is written.
C16_RelayTerminates ==
    /\ \A r \in Reqs : (pc[r] = "loop") ~> Done(r)
    /\ [](\A r \in Reqs : C16_NoMarker(r))
    /\ [][\A r \in Reqs : C16_Exit(r)]_vars

C16_Witness ==
    \E r \in Reqs :
        /\ Done(r) /\ req[r].Stream
        /\ Len(up[r].read) = 1 /\ up[r].read[1].valid
        /\ StreamBytes(w[r].body) = <<"a">>
        /\ up[r].body = "closed"

\* ------------------------------------------------------------- C17
\* a write to the caller of r has failed
WriteFailed(r) == ~CanSucceed(w[r])

C17_State(r) ==
    (Started(r) /\ req[r].Stream /\ up[r].body # "none" /\ WriteFailed(r)) =>
        /\ err[r] = ""
        /\ ~Wrote(r, "error")
        /\ AtRest(r) => StreamBytes(w[r].body) = Relayed(up[r].read)
        /\ Done(r) => w[r].status = StatusOK

\* the write, failed or not, is followed by the flush and the next round;
\* after a failed write the loop is left only on exhaustion or on a value
\* that fails to decode
C17_Step(r) ==
    /\ (req[r].Stream /\ pc[r] = "write") => pc'[r] = "flush"
    /\ (req[r].Stream /\ pc[r] = "flush" /\ WriteFailed(r)) => pc'[r] = "loop"
    /\ (req[r].Stream /\ pc[r] = "loop" /\ WriteFailed(r) /\ pc'[r] = "ret") =>
          \/ up'[r].read = up[r].read
          \/ ~Last(up'[r].read).valid

\* C17: in streaming mode a failed write to the caller does not end the
\* relay: the handler goes on reading upstream values, and issuing their
\* fragments, until the upstream is exhausted or a value fails to decode,
\* and it reports no error.
C17_FailedWriteKeepsRelaying ==
    /\ [](\A r \in Reqs : C17_State(r))
    /\ [][\A r \in Reqs : C17_Step(r)]_vars

C17_Witness ==
    \E r \in Reqs :
        /\ Done(r) /\ req[r].Stream
        /\ Len(up[r].read) = 2 /\ AllValid(up[r].read)
        /\ Len(w[r].body) = 2 /\ ~w[r].body[1].ok
        /\ w[r].flushes = 2

\* ------------------------------------------------------------- C18
\* C18: a request issues at most one upstream call; when the call fails at
\* the network level queryExternalAPI returns the one error "request
\* failed", nothing is read or written before it, and the handler answers
\* 500 with that text; the call is not issued again.
C18_OneUpstreamCall ==
    \A r \in Reqs :
        /\ Len(up[r].sent) <= 1
        /\ (NetworkFailed(r) /\ pc[r] \in {"ret", "after", "done"}) =>
              /\ err[r] = "request failed"
              /\ up[r].read = <<>>
              /\ Len(up[r].sent) = 1
        /\ (NetworkFailed(r) /\ Done(r)) =>
              /\ w[r].status = StatusInternalServerError
              /\ Len(w[r].body) = 1
              /\ w[r].body[1].kind = "error"
              /\ w[r].body[1].text = "request failed"

C18_Witness ==
    \E r \in Reqs :
        /\ Done(r) /\ NetworkFailed(r)
        /\ Len(up[r].sent) = 1
        /\ w[r].status = StatusInternalServerError
        /\ req[r].Stream

\* ------------------------------------------------------------- C19
\* C19: whatever the response writer, a Flusher or not, the handler never
\* panics, and the flusher of a writer that is not a Flusher is never used.
C19_NoCrashForAnyWriter ==
    \A r \in Reqs :
        /\ ~panicked[r]
        /\ ~inp[r].flusher => w[r].flushes = 0
        /\ (Done(r) /\ req[r].Stream /\ up[r].body # "none") =>
              StreamBytes(w[r].body) = Relayed(up[r].read)

\* ------------------------------------------------------------- C20
\* The response of request r as a function of its own request, the
\* credential, its own upstream reply and the fate of its own writes.
CorsHeader == "Access-Control-Allow-Origin" :> "*"
ErrorHeader ==
    CorsHeader @@ ("Content-Type" :> "text/plain; charset=utf-8")
               @@ ("X-Content-Type-Options" :> "nosniff")
EventStreamHeader ==
    CorsHeader @@ ("Content-Type" :> "text/event-stream")
               @@ ("Cache-Control" :> "no-cache") @@ ("Connection" :> "keep-alive")

RECURSIVE RelayedItems(_)
RelayedItems(vals) ==
    IF vals = <<>> THEN <<>>
    ELSE IF ~Head(vals).valid THEN <<>>
    ELSE (IF Head(vals).choices = <<>> \/ Head(vals).choices[1].content = <<>>
          THEN <<>>
          ELSE << Fragment(Head(vals).choices[1].content) >>)
            \o RelayedItems(Tail(vals))

\* the reply of a non-streaming request whose upstream document has a choice
OwnDocument(r) ==
    Document([keys |-> {"model", "response"},
              model |-> EffectiveModel(inp[r].body),
              response |-> up[r].read[1].choices[1].text,
              created_at |-> ""])

\* where the request ended: the outcome decided by its own inputs
Outcome(r) ==
    IF inp[r].method # "POST" THEN "method"
    ELSE IF inp[r].body \in BadBodies THEN "body"
    ELSE IF apiKey = "" THEN "key"
    ELSE IF up[r].body = "none" THEN "network"
    ELSE IF InStream(inp[r].body) THEN "stream"
    ELSE IF up[r].read = <<>> \/ ~up[r].read[1].valid THEN "undecodable"
    ELSE IF up[r].read[1].choices = <<>> THEN "nochoice"
    ELSE IF w[r].body # <<>> /\ ~w[r].body[1].ok THEN "encode"
    ELSE "reply"

ExpectedStatus(r) ==
    CASE Outcome(r) = "method" -> StatusMethodNotAllowed
      [] Outcome(r) = "body" -> StatusBadRequest
      [] Outcome(r) \in {"key", "network", "undecodable", "nochoice"} ->
            StatusInternalServerError
      [] OTHER -> StatusOK

ExpectedHeader(r) ==
    CASE Outcome(r) \in {"method", "body", "key", "network", "undecodable", "nochoice"} ->
            ErrorHeader
      [] Outcome(r) = "stream" -> EventStreamHeader
      [] OTHER -> CorsHeader

ExpectedBody(r) ==
    CASE Outcome(r) = "method" -> << ErrorText("Method not allowed") >>
      [] Outcome(r) = "body" ->
            << ErrorText(IF inp[r].body.syntax THEN "json: cannot unmarshal"
                         ELSE "invalid character") >>
      [] Outcome(r) = "key" ->
            << ErrorText("API key not set in TOGETHER_API_KEY environment variable") >>
      [] Outcome(r) = "network" -> << ErrorText("request failed") >>
      [] Outcome(r) = "undecodable" -> << ErrorText("failed to decode response") >>
      [] Outcome(r) = "nochoice" -> << ErrorText("no choices returned") >>
      [] Outcome(r) = "stream" -> RelayedItems(up[r].read)
      [] Outcome(r) = "encode" -> << OwnDocument(r), ErrorText("write failed") >>
      [] OTHER -> << OwnDocument(r) >>

\* the writes issued, whatever their fate
Issued(b) == [i \in 1..Len(b) |-> [b[i] EXCEPT !.ok = TRUE]]

C20_OwnResponse(r) ==
    Done(r) =>
        /\ w[r].status = ExpectedStatus(r)
        /\ w[r].sent = ExpectedHeader(r)
        /\ Issued(w[r].body) = ExpectedBody(r)

\* a step leaves request q as it was
Untouched(q) ==
    /\ pc'[q] = pc[q] /\ inp'[q] = inp[q] /\ req'[q] = req[q] /\ w'[q] = w[q]
    /\ up'[q] = up[q] /\ err'[q] = err[q] /\ cur'[q] = cur[q]
    /\ panicked'[q] = panicked[q]

C20_OneRequestPerStep ==
    /\ apiKey' = apiKey
    /\ \E r \in Reqs : \A q \in Reqs \ {r} : Untouched(q)

\* C20: in every interleaving of two requests the status, header and body
\* each caller gets are those its own request, the credential and its own
\* upstream reply determine; a step of one request changes nothing of the
\* other, and the credential is never written.
C20_RequestsAreIsolated ==
    /\ [](\A r \in Reqs : C20_OwnResponse(r))
    /\ [][C20_OneRequestPerStep]_vars

C20_Witness ==
    /\ Done(1) /\ pc[2] = "flush"
    /\ req[1].Stream /\ req[2].Stream
    /\ StreamBytes(w[1].body) = <<"a", "b">>
    /\ StreamBytes(w[2].body) = <<"b">>
    /\ Len(up[2].read) = 1

====
